---- MODULE Spec2Model ----
(***************************************************************************)
(* whodis: ARP scans pushed into Redis streams (src/whodis.py).            *)
(*                                                                         *)
(* Strings whose characters matter (hardware addresses, vendor strings)    *)
(* are sequences of one-character strings, so that str.lower() and         *)
(* truncate() are computed character by character.  Opaque strings (ip     *)
(* addresses, field names, alias names) are plain strings.                 *)
(***************************************************************************)
EXTENDS Integers, Sequences, FiniteSets, TLC

\* ------------------------------------------------------------------ bounds
MaxScanLen  == 2      \* longest scan batch returned by arp.scan()
MaxRuns     == 2      \* arpscan_and_push runs started in one behaviour
MaxMs       == 2      \* range of the store's millisecond clock, 1..MaxMs
WorkerSlots == 2      \* execution slots of the Celery worker pool
MaxFirings  == 2      \* firings of the periodic task sent by the beat
MaxStep     == 3      \* longest window of gen_dateranges, seconds
MaxCount    == 3      \* most windows asked of gen_dateranges
MaxDevices  == 13     \* most devices in a cell handed to the filters

\* --------------------------------------------------------- program constants
FREQUENCY   == 15 * 60
VendorMax   == 15

Max(a, b) == IF a >= b THEN a ELSE b

\* ------------------------------------------------------------------ strings
LowerChar(c) ==
    CASE c = "A" -> "a"
      [] c = "B" -> "b"
      [] c = "C" -> "c"
      [] c = "D" -> "d"
      [] OTHER   -> c

\* str.lower()
Lower(s) == [i \in DOMAIN s |-> LowerChar(s[i])]

\* mutant: the string is cut at max_len, no marker
truncateCut(s, max_len) ==
    IF Len(s) <= max_len THEN s ELSE SubSeq(s, 1, max_len)

truncate(s, max_len) ==
    IF Len(s) <= max_len
    THEN s
    ELSE SubSeq(s, 1, Max(0, max_len - 3)) \o <<".", ".", ".">>

\* ------------------------------------------------------------------- inputs
MacLower == <<"a", "a", ":", "b", "b">>
MacUpper == <<"A", "A", ":", "B", "B">>
MacOther == <<"c", "c", ":", "d", "d">>
Macs     == {MacLower, MacUpper, MacOther}

HwShort  == <<"O", "t", "h", "e", "r">>
HwLong   == <<"V", "e", "n", "d", "o", "r", "N", "a", "m", "e", "T", "h",
              "a", "t", "I", "s", "V", "e", "r", "y", "L", "o", "n", "g">>
\* vendor strings of exactly VendorMax and of VendorMax + 1 characters
Hw15     == <<"F", "i", "f", "t", "e", "e", "n", "C", "h", "a", "r", "N",
              "a", "m", "e">>
Hw16     == <<"S", "i", "x", "t", "e", "e", "n", "C", "h", "a", "r", "N",
              "a", "m", "e", "s">>

\* records the scanner can return
RecFirst  == [mac |-> MacLower, ip |-> "10.0.0.1", hw |-> HwLong]
RecSecond == [mac |-> MacLower, ip |-> "10.0.0.2", hw |-> HwShort]
RecUpper  == [mac |-> MacUpper, ip |-> "10.0.0.3", hw |-> HwShort]
RecOther  == [mac |-> MacOther, ip |-> "10.0.0.4", hw |-> HwLong]
RecFifteen == [mac |-> MacOther, ip |-> "10.0.0.6", hw |-> Hw15]
RecSixteen == [mac |-> MacUpper, ip |-> "10.0.0.7", hw |-> Hw16]
\* a malformed record: it has no 'mac' key
RecNoMac  == [ip |-> "10.0.0.5", hw |-> HwShort]

SeqsUpTo(S, n) == UNION { [1..k -> S] : k \in 0..n }

\* the scan batches each specification draws from
ScanBatches  == SeqsUpTo({RecFirst, RecSecond, RecUpper}, MaxScanLen)
FailBatches  == SeqsUpTo({RecFirst, RecOther, RecNoMac}, MaxScanLen)
KnownBatches == SeqsUpTo({RecFirst, RecUpper}, MaxScanLen)
SchedBatches == {<<>>, <<RecFirst>>}
TruncBatches == SeqsUpTo({RecFirst, RecFifteen, RecSixteen}, MaxScanLen)

\* addresses an operator passes to the registry operations
RegistryInputs == {MacLower, MacUpper}
AliasNames     == {"laptop", "phone"}

\* -------------------------------------------------------------------- state
VARIABLES
    mac_ts,            \* the aggregate stream 'mac_ts'
    mac_ts_,           \* the per-address streams 'mac_ts_<mac>'
    mac_addrs,         \* the set 'mac_addrs'
    mac_addrs_ignore,  \* the set 'mac_addrs_ignore'
    mac_addr_aliases,  \* the hash 'mac_addr_aliases'
    pc,                \* per slot: position of the arpscan_and_push run
    scan,              \* per slot: the value arp.scan() returned
    ignore_macs,       \* per slot: push_update's local ignore_macs
    sent,              \* per slot: commands of p the server has executed
    runs,              \* runs started so far
    req,               \* per slot: the task message being executed
    data,              \* what whodis_home last read from 'mac_ts'
    page,              \* what whodis_home last rendered from data
    gen,               \* frame of a gen_dateranges generator
    view,              \* a cell and what the template filters made of it
    now,               \* wall clock, seconds
    next_fire,         \* when the beat next sends arpscan_and_push
    queue,             \* task messages in the broker, oldest first
    dropped            \* task messages the worker discarded as expired

store == <<mac_ts, mac_ts_, mac_addrs, mac_addrs_ignore, mac_addr_aliases>>
task  == <<pc, scan, ignore_macs, sent, runs, req>>
sched == <<now, next_fire, queue, dropped>>
reader == <<data, page>>
pure  == <<gen, view>>
vars  == <<store, task, data, page, sched, pure>>

Slots == 1..WorkerSlots

\* ------------------------------------------------------------- stream store
IdLess(a, b) == a[1] < b[1] \/ (a[1] = b[1] /\ a[2] < b[2])

LastId(stream) == IF stream = <<>> THEN <<0, 0>> ELSE stream[Len(stream)].id

\* mutant: the id is the clock reading alone
NextIdClockOnly(stream, ms) == <<ms, 0>>

\* the id the server generates for ident '*' when its clock reads ms
NextId(stream, ms) ==
    LET last == LastId(stream)
    IN  IF ms > last[1] THEN <<ms, 0>> ELSE <<last[1], last[2] + 1>>

\* XADD key * field value ...
XaddStream(stream, fields, ms) ==
    Append(stream, [id |-> NextId(stream, ms), fields |-> fields])

\* a command is refused when queued if it has too few arguments
BadArity(c) ==
    CASE c.cmd = "XADD" -> Len(c.args) < 2
      [] c.cmd = "SADD" -> c.args = {}

\* the store after one command
ApplyCmd(c, st, ms) ==
    CASE c.cmd = "XADD" /\ c.key = <<"mac_ts">> ->
            [st EXCEPT !.mac_ts = XaddStream(@, c.args, ms)]
      [] c.cmd = "XADD" /\ c.key # <<"mac_ts">> ->
            [st EXCEPT !.mac_ts_[c.key[2]] = XaddStream(@, c.args, ms)]
      [] c.cmd = "SADD" ->
            [st EXCEPT !.mac_addrs = @ \cup c.args]

RECURSIVE ApplyAll(_, _, _)
ApplyAll(cmds, st, ms) ==
    IF cmds = <<>> THEN st
    ELSE ApplyAll(Tail(cmds), ApplyCmd(Head(cmds), st, ms), ms)

\* ------------------------------------------------------------- push_update
EmptyAcc == [p |-> <<>>, kvs |-> <<>>, seen_macs |-> {}, raised |-> FALSE]

\* mutant: kvs takes the address without the vendor
AcceptKvsMacOnly(acc, result) ==
    LET hw_truncated == truncate(result.hw, VendorMax)
    IN  [p         |-> Append(acc.p,
                         [cmd  |-> "XADD",
                          key  |-> <<"mac_ts_", result.mac>>,
                          args |-> <<"ip", result.ip, "hw", hw_truncated>>]),
         kvs       |-> Append(acc.kvs, result.mac),
         seen_macs |-> acc.seen_macs \cup {result.mac},
         raised    |-> FALSE]

\* mutant: the pair is put in front of kvs
AcceptKvsPrepend(acc, result) ==
    LET hw_truncated == truncate(result.hw, VendorMax)
    IN  [p         |-> Append(acc.p,
                         [cmd  |-> "XADD",
                          key  |-> <<"mac_ts_", result.mac>>,
                          args |-> <<"ip", result.ip, "hw", hw_truncated>>]),
         kvs       |-> <<result.mac, hw_truncated>> \o acc.kvs,
         seen_macs |-> acc.seen_macs \cup {result.mac},
         raised    |-> FALSE]

\* one accepted record: the queued XADD, kvs and seen_macs
Accept(acc, result) ==
    LET hw_truncated == truncate(result.hw, VendorMax)
    IN  [p         |-> Append(acc.p,
                         [cmd  |-> "XADD",
                          key  |-> <<"mac_ts_", result.mac>>,
                          args |-> <<"ip", result.ip, "hw", hw_truncated>>]),
         kvs       |-> acc.kvs \o <<result.mac, hw_truncated>>,
         seen_macs |-> acc.seen_macs \cup {result.mac},
         raised    |-> FALSE]

\* mutant: the loop without the seen_macs test
RECURSIVE LoopNoDedup(_, _, _)
LoopNoDedup(results, ignore, acc) ==
    IF results = <<>> THEN acc
    ELSE LET result == Head(results) IN
         IF "mac" \notin DOMAIN result
         THEN [acc EXCEPT !.raised = TRUE]
         ELSE IF result.mac \in ignore
         THEN LoopNoDedup(Tail(results), ignore, acc)
         ELSE LoopNoDedup(Tail(results), ignore, Accept(acc, result))

\* mutant: the loop without the ignore_macs test
RECURSIVE LoopNoIgnore(_, _, _)
LoopNoIgnore(results, ignore, acc) ==
    IF results = <<>> THEN acc
    ELSE LET result == Head(results) IN
         IF "mac" \notin DOMAIN result
         THEN [acc EXCEPT !.raised = TRUE]
         ELSE IF result.mac \in acc.seen_macs
         THEN LoopNoIgnore(Tail(results), ignore, acc)
         ELSE LoopNoIgnore(Tail(results), ignore, Accept(acc, result))

\* the for loop of push_update; a record without 'mac' raises KeyError
RECURSIVE Loop(_, _, _)
Loop(results, ignore, acc) ==
    IF results = <<>> THEN acc
    ELSE LET result == Head(results) IN
         IF "mac" \notin DOMAIN result
         THEN [acc EXCEPT !.raised = TRUE]
         ELSE IF result.mac \in acc.seen_macs \/ result.mac \in ignore
         THEN Loop(Tail(results), ignore, acc)
         ELSE Loop(Tail(results), ignore, Accept(acc, result))

\* mutant: the aggregate XADD is left out
PipelineNoAggregate(results, ignore) ==
    LET acc == Loop(results, ignore, EmptyAcc)
    IN  acc.p \o << [cmd |-> "SADD", key |-> <<"mac_addrs">>,
                     args |-> acc.seen_macs] >>

\* mutant: the SADD is left out
PipelineNoSadd(results, ignore) ==
    LET acc == Loop(results, ignore, EmptyAcc)
    IN  acc.p \o << [cmd |-> "XADD", key |-> <<"mac_ts">>, args |-> acc.kvs] >>

\* the pipeline p as it stands when p.execute() is called
Pipeline(results, ignore) ==
    LET acc == Loop(results, ignore, EmptyAcc)
    IN  acc.p \o << [cmd |-> "XADD", key |-> <<"mac_ts">>, args |-> acc.kvs],
                    [cmd |-> "SADD", key |-> <<"mac_addrs">>,
                     args |-> acc.seen_macs] >>

Raises(results, ignore) == Loop(results, ignore, EmptyAcc).raised

\* mutant: the loop's XADDs go straight to the server (r instead of p)
SentBeforeExecuteEager(cmds) == SubSeq(cmds, 1, Len(cmds) - 2)

\* commands the client transmits while the loop runs: pipeline() buffers
SentBeforeExecute(cmds) == <<>>

\* mutant: pipeline(transaction=False), the server runs them one by one
ExecUnitsNoTransaction(cmds) == 1..Len(cmds)

\* sizes of the units in which the server runs the buffered commands:
\* pipeline() is transactional, MULTI ... EXEC runs them as one unit
ExecUnits(cmds) == {Len(cmds)}

StoreRec == [mac_ts |-> mac_ts, mac_ts_ |-> mac_ts_, mac_addrs |-> mac_addrs]

SetStore(st) ==
    /\ mac_ts'    = st.mac_ts
    /\ mac_ts_'   = st.mac_ts_
    /\ mac_addrs' = st.mac_addrs
    /\ UNCHANGED <<mac_addrs_ignore, mac_addr_aliases>>

\* ---------------------------------------------------------------- schedule
\* expires=max(10, int(FREQUENCY * 0.25)), seconds after the message is sent
Expires == Max(10, (FREQUENCY * 25) \div 100)

\* mutant: a message is never taken to be expired
ExpiredNever(msg, t) == FALSE

\* mutant: a message is taken to be expired at its deadline already
ExpiredAtDeadline(msg, t) == t >= msg.expires

\* the worker's test of a message's 'expires' when it is about to run it
Expired(msg, t) == t > msg.expires

NoReq == [sent |-> -1, expires |-> -1, started |-> -1]

\* the instants the clock steps through: each firing, its deadline, and
\* the second after the deadline
Instants ==
    {0} \cup { k * FREQUENCY + d : k \in 1..(MaxFirings + 1),
                                  d \in {0, Expires, Expires + 1} }

\* ---------------------------------------------------------------- the view
\* an arrow instant: whole seconds since the epoch, and the microseconds
Arrow(s, us) == [s |-> s, us |-> us]

\* Arrow.shift(seconds=n)
shift(t, n) == [s |-> t.s + n, us |-> t.us]

\* Arrow.timestamp
timestamp(t) == t.s

\* the frame of gen_dateranges(latest, step, count) before its first turn
GenFrame(latest, step, count) ==
    [latest |-> latest, step |-> step, count |-> count,
     window_start |-> latest, i |-> 0, out |-> <<>>]

\* mutant: the next window starts where this one stops
GenYieldNoGap(f) ==
    LET window_stop == shift(f.window_start, -f.step)
    IN  [f EXCEPT !.out = Append(@, <<timestamp(f.window_start),
                                      timestamp(window_stop)>>),
                  !.window_start = window_stop,
                  !.i = @ + 1]

\* one turn of the loop: the pair it yields is appended to out
GenYield(f) ==
    LET window_stop == shift(f.window_start, -f.step)
    IN  [f EXCEPT !.out = Append(@, <<timestamp(f.window_start),
                                      timestamp(window_stop)>>),
                  !.window_start = shift(window_stop, -1),
                  !.i = @ + 1]

RECURSIVE GenRun(_)
GenRun(f) == IF f.i < f.count THEN GenRun(GenYield(f)) ELSE f

\* list(gen_dateranges(latest, step, count))
gen_dateranges(latest, step, count) ==
    GenRun(GenFrame(latest, step, count)).out

NoGen == GenFrame(Arrow(0, 0), 0, 0)

\* mutant: the upper limit of each class belongs to the class
cell_classInclusive(cell) ==
    LET twice == Len(cell.fields)
    IN  IF twice = 0 THEN "grad0"
        ELSE IF twice <= 2 * 6 THEN "grad1"
        ELSE IF twice <= 2 * 8 THEN "grad2"
        ELSE IF twice <= 2 * 12 THEN "grad3"
        ELSE "grad4"

\* length = len(cell[1])/2 is a true division: length < k is twice < 2 * k
cell_class(cell) ==
    LET twice == Len(cell.fields)
    IN  IF twice = 0 THEN "grad0"
        ELSE IF twice < 2 * 6 THEN "grad1"
        ELSE IF twice < 2 * 8 THEN "grad2"
        ELSE IF twice < 2 * 12 THEN "grad3"
        ELSE "grad4"

\* cmap(range(256)): entry i of the 'summer_r' table, not looked into
colours == [i \in 0..255 |-> <<"summer_r", i>>]

\* the web hex string of a table entry, one string per entry
rgb_to_web_hex(c) == <<"#">> \o c

\* step is (256 - 0) / 256 = 1.0, so map_position is int(len(point[1])/2)
colourmap(point) ==
    LET map_position == Len(point.fields) \div 2
    IN  rgb_to_web_hex(colours[map_position % 256])

Age(n, unit, dir) == [n |-> n, unit |-> unit, dir |-> dir]

\* Arrow.humanize() of an instant delta_ms after the clock reading: arrow
\* takes int() of the seconds between them and words it by steps; the
\* steps past 'days' are beyond the instants reached here
humanize(delta_ms) ==
    LET diff == (IF delta_ms < 0 THEN -delta_ms ELSE delta_ms) \div 1000
        dir  == IF delta_ms <= -1000 THEN "ago" ELSE "in"
    IN  IF diff < 10 THEN Age(0, "just now", "")
        ELSE IF diff < 45 THEN Age(0, "seconds", dir)
        ELSE IF diff < 90 THEN Age(1, "minute", dir)
        ELSE IF diff < 2700 THEN Age(Max(diff \div 60, 2), "minutes", dir)
        ELSE IF diff < 5400 THEN Age(1, "hour", dir)
        ELSE IF diff < 79200 THEN Age(Max(diff \div 3600, 2), "hours", dir)
        ELSE IF diff < 129600 THEN Age(1, "day", dir)
        ELSE Age(Max(diff \div 86400, 2), "days", dir)

\* the id's millisecond part, as seconds, against the clock reading t
humanise_cell(cell, t) == humanize(cell.id[1] - t * 1000)

\* "{} : <strong>{} devices present</strong>"
tooltip_text(cell, t) ==
    [age |-> humanise_cell(cell, t), devices |-> Len(cell.fields) \div 2]

\* what the filters registered with the template give for one cell
RenderCell(cell, t) ==
    [id      |-> cell.id,
     class   |-> cell_class(cell),
     colour  |-> colourmap(cell),
     tooltip |-> tooltip_text(cell, t)]

\* whodis_home at clock reading t: its locals start, end and the cells
Render(d, t) ==
    [window |-> gen_dateranges(Arrow(t, 0), 60 * 60 * 24, 1)[1],
     cells  |-> [i \in DOMAIN d |-> RenderCell(d[i], t)]]

NoPage == [window |-> <<>>, cells |-> <<>>]

\* the inputs of gen_dateranges
LatestInputs == {Arrow(s, us) : s \in {0, 7, 1000}, us \in {0, 500000}}

\* cells of an aggregate stream with n devices
Hex == <<"0", "1", "2", "3", "4", "5", "6", "7",
         "8", "9", "a", "b", "c", "d", "e", "f">>

DeviceMac(k) == <<"d", "e", ":", Hex[(k \div 16) + 1], Hex[(k % 16) + 1]>>

CellOf(n, ms) ==
    [id     |-> <<ms, 0>>,
     fields |-> [i \in 1..(2 * n) |->
                   IF i % 2 = 1 THEN DeviceMac((i + 1) \div 2) ELSE HwShort]]

Cells == {CellOf(n, ms) : n \in 0..MaxDevices, ms \in 1..MaxMs}

NoView == [cell |-> CellOf(0, 0), at |-> 0, out |-> <<>>]

\* ---------------------------------------------------------------- actions
\* the program after construction, nothing of the view computed yet
InitProgram ==
    /\ mac_ts = <<>>
    /\ mac_ts_ = [m \in Macs |-> <<>>]
    /\ mac_addrs = {}
    /\ mac_addrs_ignore = {}
    /\ mac_addr_aliases = <<>>
    /\ pc = [s \in Slots |-> "idle"]
    /\ scan = [s \in Slots |-> <<>>]
    /\ ignore_macs = [s \in Slots |-> {}]
    /\ sent = [s \in Slots |-> 0]
    /\ runs = 0
    /\ req = [s \in Slots |-> NoReq]
    /\ data = <<>>
    /\ page = NoPage
    /\ now = 0
    /\ next_fire = FREQUENCY
    /\ queue = <<>>
    /\ dropped = {}

Init ==
    /\ InitProgram
    /\ gen = NoGen
    /\ view = NoView

\* a worker slot starts arpscan_and_push
Invoke(s) ==
    /\ pc[s] = "idle"
    /\ runs < MaxRuns
    /\ pc' = [pc EXCEPT ![s] = "scan"]
    /\ runs' = runs + 1
    /\ UNCHANGED <<store, scan, ignore_macs, sent, req, reader, pure, sched>>

\* arp.scan() raises: push_update is never entered
ArpScanFails(s) ==
    /\ pc[s] = "scan"
    /\ pc' = [pc EXCEPT ![s] = "failed"]
    /\ UNCHANGED <<store, scan, ignore_macs, sent, runs, req, reader, pure, sched>>

\* arp.scan() returns and push_update begins: get_ignore_macs(), then the
\* loop; a KeyError in the loop abandons p
PushUpdateLoop(s, batches) ==
    /\ pc[s] = "scan"
    /\ \E results \in batches, ms \in 1..MaxMs :
         LET cmds == Pipeline(results, mac_addrs_ignore)
             early == SentBeforeExecute(cmds)
         IN  /\ scan' = [scan EXCEPT ![s] = results]
             /\ ignore_macs' = [ignore_macs EXCEPT ![s] = mac_addrs_ignore]
             /\ SetStore(ApplyAll(early, StoreRec, ms))
             /\ sent' = [sent EXCEPT ![s] = Len(early)]
             /\ pc' = [pc EXCEPT ![s] =
                         IF Raises(results, mac_addrs_ignore)
                         THEN "failed" ELSE "exec"]
    /\ UNCHANGED <<runs, req, reader, pure, sched>>

\* p.execute(): the transaction is refused when a queued command was
ExecAbort(s) ==
    /\ pc[s] = "exec"
    /\ \E i \in 1..Len(Pipeline(scan[s], ignore_macs[s])) :
          BadArity(Pipeline(scan[s], ignore_macs[s])[i])
    /\ pc' = [pc EXCEPT ![s] = "failed"]
    /\ UNCHANGED <<store, scan, ignore_macs, sent, runs, req, reader, pure, sched>>

\* mutant: the ignore set is read again when the pipeline is executed
ExecuteRereads(s) ==
    /\ pc[s] = "exec"
    /\ LET cmds == Pipeline(scan[s], mac_addrs_ignore)
           rest == SubSeq(cmds, sent[s] + 1, Len(cmds))
       IN  /\ \A i \in 1..Len(cmds) : ~BadArity(cmds[i])
           /\ \E n \in ExecUnits(rest), ms \in 1..MaxMs :
                /\ SetStore(ApplyAll(SubSeq(rest, 1, n), StoreRec, ms))
                /\ sent' = [sent EXCEPT ![s] = sent[s] + n]
                /\ pc' = [pc EXCEPT ![s] =
                            IF n = Len(rest) THEN "done" ELSE "exec"]
    /\ UNCHANGED <<scan, ignore_macs, runs, req, reader, pure, sched>>

\* p.execute(): the server runs the queued commands
Execute(s) ==
    /\ pc[s] = "exec"
    /\ LET cmds == Pipeline(scan[s], ignore_macs[s])
           rest == SubSeq(cmds, sent[s] + 1, Len(cmds))
       IN  /\ \A i \in 1..Len(cmds) : ~BadArity(cmds[i])
           /\ \E n \in ExecUnits(rest), ms \in 1..MaxMs :
                /\ SetStore(ApplyAll(SubSeq(rest, 1, n), StoreRec, ms))
                /\ sent' = [sent EXCEPT ![s] = sent[s] + n]
                /\ pc' = [pc EXCEPT ![s] =
                            IF n = Len(rest) THEN "done" ELSE "exec"]
    /\ UNCHANGED <<scan, ignore_macs, runs, req, reader, pure, sched>>

\* the task returns (or its exception is logged) and the slot is free again
Finish(s) ==
    /\ pc[s] \in {"done", "failed"}
    /\ pc' = [pc EXCEPT ![s] = "idle"]
    /\ scan' = [scan EXCEPT ![s] = <<>>]
    /\ ignore_macs' = [ignore_macs EXCEPT ![s] = {}]
    /\ sent' = [sent EXCEPT ![s] = 0]
    /\ req' = [req EXCEPT ![s] = NoReq]
    /\ UNCHANGED <<store, runs, reader, pure, sched>>

\* time passes, not beyond the next firing
Tick ==
    /\ \E t \in Instants : t > now /\ t <= next_fire /\ now' = t
    /\ UNCHANGED <<store, task, reader, pure, next_fire, queue, dropped>>

\* the beat sends the periodic task: add_periodic_task(FREQUENCY, ...)
BeatFire ==
    /\ now = next_fire
    /\ next_fire <= MaxFirings * FREQUENCY
    /\ queue' = Append(queue, [sent |-> now, expires |-> now + Expires])
    /\ next_fire' = next_fire + FREQUENCY
    /\ UNCHANGED <<store, task, reader, pure, now, dropped>>

\* a free slot takes the oldest message and starts arpscan_and_push
WorkerStart(s) ==
    /\ pc[s] = "idle"
    /\ queue # <<>>
    /\ ~Expired(Head(queue), now)
    /\ pc' = [pc EXCEPT ![s] = "scan"]
    /\ req' = [req EXCEPT ![s] = [sent    |-> Head(queue).sent,
                                  expires |-> Head(queue).expires,
                                  started |-> now]]
    /\ runs' = runs + 1
    /\ queue' = Tail(queue)
    /\ UNCHANGED <<store, scan, ignore_macs, sent, reader, pure, now, next_fire,
                   dropped>>

\* the worker discards the oldest message: it has expired
WorkerDrop ==
    /\ queue # <<>>
    /\ Expired(Head(queue), now)
    /\ dropped' = dropped \cup {Head(queue)}
    /\ queue' = Tail(queue)
    /\ UNCHANGED <<store, task, reader, pure, now, next_fire>>

set_ignore_macs(mac_addresses) ==
    /\ mac_addrs_ignore' = mac_addrs_ignore \cup {Lower(x) : x \in mac_addresses}
    /\ UNCHANGED <<mac_ts, mac_ts_, mac_addrs, mac_addr_aliases, task, reader, pure, sched>>

remove_ignored_mac(mac_address) ==
    /\ mac_addrs_ignore' = mac_addrs_ignore \ {Lower(mac_address)}
    /\ UNCHANGED <<mac_ts, mac_ts_, mac_addrs, mac_addr_aliases, task, reader, pure, sched>>

\* hset('mac_addr_aliases', mac_address.lower(), name)
set_mac_alias(mac_address, name) ==
    /\ mac_addr_aliases' =
          [m \in DOMAIN mac_addr_aliases \cup {Lower(mac_address)} |->
              IF m = Lower(mac_address) THEN name ELSE mac_addr_aliases[m]]
    /\ UNCHANGED <<mac_ts, mac_ts_, mac_addrs, mac_addrs_ignore, task, reader, pure,
                   sched>>

\* hmget('mac_addr_aliases', *[m.lower() for m in macs])
get_mac_aliases(macs) ==
    [i \in DOMAIN macs |->
        IF Lower(macs[i]) \in DOMAIN mac_addr_aliases
        THEN mac_addr_aliases[Lower(macs[i])] ELSE "None"]

\* hdel('mac_addr_aliases', mac_address.lower())
remove_mac_alias(mac_address) ==
    /\ mac_addr_aliases' =
          [m \in DOMAIN mac_addr_aliases \ {Lower(mac_address)} |->
              mac_addr_aliases[m]]
    /\ UNCHANGED <<mac_ts, mac_ts_, mac_addrs, mac_addrs_ignore, task, reader, pure,
                   sched>>

set_macs(mac_addresses) ==
    /\ mac_addrs' = mac_addrs \cup {Lower(x) : x \in mac_addresses}
    /\ UNCHANGED <<mac_ts, mac_ts_, mac_addrs_ignore, mac_addr_aliases,
                   task, reader, pure, sched>>

rm_macs(mac_addresses) ==
    /\ mac_addrs' = mac_addrs \ {Lower(x) : x \in mac_addresses}
    /\ UNCHANGED <<mac_ts, mac_ts_, mac_addrs_ignore, mac_addr_aliases,
                   task, reader, pure, sched>>

flush_all_macs ==
    /\ mac_addrs' = {}
    /\ UNCHANGED <<mac_ts, mac_ts_, mac_addrs_ignore, mac_addr_aliases,
                   task, reader, pure, sched>>

\* mutant: the view empties the stream it has read
whodis_homeConsumes ==
    /\ data' = mac_ts
    /\ page' = Render(mac_ts, now)
    /\ mac_ts' = <<>>
    /\ UNCHANGED <<mac_ts_, mac_addrs, mac_addrs_ignore, mac_addr_aliases,
                   task, sched, pure>>

\* whodis_home: r.xrange('mac_ts', '-', '+'), then the template
whodis_home ==
    /\ data' = mac_ts
    /\ page' = Render(mac_ts, now)
    /\ UNCHANGED <<store, task, sched, pure>>

Next ==
    \/ \E s \in Slots : Invoke(s)
    \/ \E s \in Slots : ArpScanFails(s)
    \/ \E s \in Slots : PushUpdateLoop(s, ScanBatches)
    \/ \E s \in Slots : ExecAbort(s)
    \/ \E s \in Slots : Execute(s)
    \/ \E s \in Slots : Finish(s)
    \/ \E ms \in (SUBSET RegistryInputs) \ {{}} : set_ignore_macs(ms)
    \/ \E m \in RegistryInputs : remove_ignored_mac(m)
    \/ whodis_home

Spec == Init /\ [][Next]_vars

\* ingestion of batches that may hold a malformed record, next to the
\* operations on the ignore set and the aliases
NextFail ==
    \/ \E s \in Slots : Invoke(s)
    \/ \E s \in Slots : ArpScanFails(s)
    \/ \E s \in Slots : PushUpdateLoop(s, FailBatches)
    \/ \E s \in Slots : ExecAbort(s)
    \/ \E s \in Slots : Execute(s)
    \/ \E s \in Slots : Finish(s)
    \/ \E ms \in (SUBSET RegistryInputs) \ {{}} : set_ignore_macs(ms)
    \/ \E m \in RegistryInputs : remove_ignored_mac(m)
    \/ \E m \in RegistryInputs, n \in AliasNames : set_mac_alias(m, n)
    \/ \E m \in RegistryInputs : remove_mac_alias(m)

SpecFail == Init /\ [][NextFail]_vars

\* ingestion next to the operations on 'mac_addrs'
NextKnown ==
    \/ \E s \in Slots : Invoke(s)
    \/ \E s \in Slots : ArpScanFails(s)
    \/ \E s \in Slots : PushUpdateLoop(s, KnownBatches)
    \/ \E s \in Slots : ExecAbort(s)
    \/ \E s \in Slots : Execute(s)
    \/ \E s \in Slots : Finish(s)
    \/ \E ms \in (SUBSET RegistryInputs) \ {{}} : set_macs(ms)
    \/ \E ms \in (SUBSET RegistryInputs) \ {{}} : rm_macs(ms)
    \/ flush_all_macs

SpecKnown == Init /\ [][NextKnown]_vars

\* ingestion driven by the periodic task
NextSched ==
    \/ Tick
    \/ BeatFire
    \/ \E s \in Slots : WorkerStart(s)
    \/ WorkerDrop
    \/ \E s \in Slots : ArpScanFails(s)
    \/ \E s \in Slots : PushUpdateLoop(s, SchedBatches)
    \/ \E s \in Slots : ExecAbort(s)
    \/ \E s \in Slots : Execute(s)
    \/ \E s \in Slots : Finish(s)

SpecSched == Init /\ [][NextSched]_vars

\* ingestion of batches whose vendor strings lie around VendorMax
NextTrunc ==
    \/ \E s \in Slots : Invoke(s)
    \/ \E s \in Slots : ArpScanFails(s)
    \/ \E s \in Slots : PushUpdateLoop(s, TruncBatches)
    \/ \E s \in Slots : ExecAbort(s)
    \/ \E s \in Slots : Execute(s)
    \/ \E s \in Slots : Finish(s)

SpecTrunc == Init /\ [][NextTrunc]_vars

\* ingestion next to the registry's operations on all three collections
NextRegistry ==
    \/ \E s \in Slots : Invoke(s)
    \/ \E s \in Slots : ArpScanFails(s)
    \/ \E s \in Slots : PushUpdateLoop(s, KnownBatches)
    \/ \E s \in Slots : ExecAbort(s)
    \/ \E s \in Slots : Execute(s)
    \/ \E s \in Slots : Finish(s)
    \/ \E m \in RegistryInputs, n \in AliasNames : set_mac_alias(m, n)
    \/ \E m \in RegistryInputs : remove_mac_alias(m)
    \/ \E m \in RegistryInputs : set_ignore_macs({m})
    \/ \E m \in RegistryInputs : set_macs({m})

SpecRegistry == Init /\ [][NextRegistry]_vars

\* the page is requested while batches are ingested and time passes
NextRead ==
    \/ \E s \in Slots : Invoke(s)
    \/ \E s \in Slots : ArpScanFails(s)
    \/ \E s \in Slots : PushUpdateLoop(s, SchedBatches)
    \/ \E s \in Slots : ExecAbort(s)
    \/ \E s \in Slots : Execute(s)
    \/ \E s \in Slots : Finish(s)
    \/ Tick
    \/ whodis_home

SpecRead == Init /\ [][NextRead]_vars

\* a gen_dateranges generator is created and turned
InitWindows ==
    /\ InitProgram
    /\ \E latest \in LatestInputs, step \in 1..MaxStep, count \in 0..MaxCount :
          gen = GenFrame(latest, step, count)
    /\ view = NoView

\* next(): the loop runs to its next yield
GenNext ==
    /\ gen.i < gen.count
    /\ gen' = GenYield(gen)
    /\ UNCHANGED <<store, task, reader, sched, view>>

SpecWindows == InitWindows /\ [][GenNext]_vars

\* the template filters are applied to a cell at clock reading view.at
InitCells ==
    /\ InitProgram
    /\ gen = NoGen
    /\ \E c \in Cells, t \in Instants : view = [cell |-> c, at |-> t, out |-> <<>>]

RenderView ==
    /\ view.out = <<>>
    /\ view' = [view EXCEPT !.out = <<RenderCell(view.cell, view.at)>>]
    /\ UNCHANGED <<store, task, reader, sched, gen>>

SpecCells == InitCells /\ [][RenderView]_vars

\* ------------------------------------------------------- claim vocabulary
Last(q) == q[Len(q)]

HasMac(result) == "mac" \in DOMAIN result

\* positions of address a in batch B
Occurrences(B, a) == {i \in DOMAIN B : HasMac(B[i]) /\ B[i].mac = a}

FirstOccurrence(B, a) ==
    CHOOSE i \in Occurrences(B, a) : \A j \in Occurrences(B, a) : i <= j

WellFormed(B) == \A i \in DOMAIN B : HasMac(B[i])

\* addresses of B that are not in the snapshot
AcceptedMacs(B, snapshot) ==
    {a \in Macs : Occurrences(B, a) # {} /\ a \notin snapshot}

\* addresses named by an aggregate Event: the odd positions of its fields
EventMacs(ev) ==
    {ev.fields[i] : i \in {j \in DOMAIN ev.fields : j % 2 = 1}}

\* slot s commits its batch in this step
Commits(s) == pc[s] = "exec" /\ pc'[s] = "done"

\* C1: a batch that holds a non-ignored address more than once appends
\* exactly one Event to that address's log, carrying the ip and the
\* (truncated) hw of the first occurrence.
C1_FirstOccurrenceWins ==
    [][\A s \in Slots : Commits(s) =>
         \A a \in Macs :
            (Cardinality(Occurrences(scan[s], a)) > 1 /\ a \notin ignore_macs[s])
            => LET first == scan[s][FirstOccurrence(scan[s], a)]
               IN  /\ Len(mac_ts_'[a]) = Len(mac_ts_[a]) + 1
                   /\ SubSeq(mac_ts_'[a], 1, Len(mac_ts_[a])) = mac_ts_[a]
                   /\ Last(mac_ts_'[a]).fields =
                        <<"ip", first.ip, "hw", truncate(first.hw, VendorMax)>>
      ]_vars

\* a committed batch whose two records for one address differ in ip and hw
C1_Witness ==
    \E s \in Slots :
       /\ pc[s] = "done"
       /\ scan[s] = <<RecSecond, RecFirst>>
       /\ ignore_macs[s] = {}
       /\ Len(mac_ts_[MacLower]) = 1
       /\ Last(mac_ts_[MacLower]).fields[2] = RecSecond.ip

\* C2: while a batch whose snapshot holds address a is executed, nothing
\* is appended to a's log and no aggregate Event naming a is appended.
C2_IgnoredNeverWritten ==
    [][\A s \in Slots : (pc[s] = "exec" /\ pc'[s] # pc[s]) =>
         \A a \in ignore_macs[s] :
            /\ a \in Macs => mac_ts_'[a] = mac_ts_[a]
            /\ mac_ts' # mac_ts => a \notin EventMacs(Last(mac_ts'))
      ]_vars

\* an ignored address first in a committed batch that also wrote another
C2_Witness ==
    \E s \in Slots :
       /\ pc[s] = "done"
       /\ scan[s] = <<RecFirst, RecUpper>>
       /\ ignore_macs[s] = {MacLower}
       /\ mac_ts_[MacLower] = <<>>
       /\ Len(mac_ts) = 1

\* C3: a batch writes nothing for an address that equals a member of its
\* ignore snapshot up to letter case, and does not add it to 'mac_addrs'.
C3_IgnoreAnyCase ==
    [][\A s \in Slots : Commits(s) =>
         \A a \in Macs :
            Lower(a) \in ignore_macs[s]
            => /\ mac_ts_'[a] = mac_ts_[a]
               /\ a \notin EventMacs(Last(mac_ts'))
               /\ (a \in mac_addrs' => a \in mac_addrs)
      ]_vars

\* C4: a committed batch lengthens the aggregate log by one, the log of
\* each accepted address by one, and no other log.
C4_LengthsGrowByOne ==
    [][\A s \in Slots : Commits(s) =>
         /\ Len(mac_ts') = Len(mac_ts) + 1
         /\ \A a \in Macs :
               Len(mac_ts_'[a]) =
                  Len(mac_ts_[a]) +
                  (IF a \in AcceptedMacs(scan[s], ignore_macs[s]) THEN 1 ELSE 0)
      ]_vars

\* a second committed batch with two accepted addresses
C4_Witness ==
    \E s \in Slots :
       /\ pc[s] = "done"
       /\ AcceptedMacs(scan[s], ignore_macs[s]) = {MacLower, MacUpper}
       /\ Len(mac_ts) = 2
       /\ Len(mac_ts_[MacLower]) = 2
       /\ Len(mac_ts_[MacUpper]) = 1

\* C5: every step that changes a log shows a whole batch: one aggregate
\* Event, one Event in the log of each address it names and in no other
\* log, and those addresses in 'mac_addrs'.
C5_BatchVisibleAtOnce ==
    [][(mac_ts' # mac_ts \/ mac_ts_' # mac_ts_) =>
         /\ Len(mac_ts') = Len(mac_ts) + 1
         /\ \A a \in Macs :
               IF a \in EventMacs(Last(mac_ts'))
               THEN /\ Len(mac_ts_'[a]) = Len(mac_ts_[a]) + 1
                    /\ a \in mac_addrs'
               ELSE mac_ts_'[a] = mac_ts_[a]
      ]_vars

\* a reader that read between two commits, the second of two addresses
C5_Witness ==
    \E s \in Slots :
       /\ pc[s] = "done"
       /\ Len(data) = 1
       /\ Len(mac_ts) = 2
       /\ Cardinality(EventMacs(Last(mac_ts))) = 2

\* C6: the step in which a cycle fails changes nothing in the store, and
\* the failing run has had none of its commands executed.
C6_FailedCycleChangesNothing ==
    [][\A s \in Slots : (pc[s] # "failed" /\ pc'[s] = "failed") =>
         /\ store' = store
         /\ sent'[s] = 0
      ]_vars

\* the store refused a batch whose only record is ignored, after an
\* earlier batch had been committed and an alias set
C6_Witness ==
    \E s \in Slots :
       /\ pc[s] = "failed"
       /\ scan[s] = <<RecFirst>>
       /\ ignore_macs[s] = {MacLower}
       /\ Len(mac_ts) = 1
       /\ Len(mac_ts_[MacLower]) = 1
       /\ MacLower \in mac_addrs
       /\ DOMAIN mac_addr_aliases = {MacLower}

\* every address with a non-empty log is in 'mac_addrs'
KnownCoversLogs == \A a \in Macs : mac_ts_[a] # <<>> => a \in mac_addrs

\* C7 as claimed: 'mac_addrs' covers the logs in every reachable state.
C7_KnownSupersetAlways == KnownCoversLogs

\* C7 as amended: a step that appends to the log of a puts a in
\* 'mac_addrs' in the same step, and a step that removes nothing from
\* 'mac_addrs' keeps it covering the logs.
C7_KnownSupersetUnlessRemoved ==
    [][/\ \A a \in Macs : mac_ts_'[a] # mac_ts_[a] => a \in mac_addrs'
       /\ (KnownCoversLogs /\ mac_addrs \subseteq mac_addrs')
             => KnownCoversLogs'
      ]_vars

\* a batch committed after rm_macs had emptied 'mac_addrs' of its address
C7_Witness ==
    \E s \in Slots :
       /\ pc[s] = "done"
       /\ Len(mac_ts_[MacLower]) = 2
       /\ Len(mac_ts_[MacUpper]) = 1
       /\ mac_addrs = {MacLower}

IdsIncrease(stream) ==
    \A i, j \in DOMAIN stream : i < j => IdLess(stream[i].id, stream[j].id)

\* C8: in every log the ids are strictly increasing in append order.
C8_IdsStrictlyIncreasing ==
    /\ IdsIncrease(mac_ts)
    /\ \A a \in Macs : IdsIncrease(mac_ts_[a])

\* two writers in flight together appended to one log in one millisecond
C8_Witness ==
    /\ \A s \in {1, 2} : pc[s] = "done"
    /\ Len(mac_ts_[MacLower]) = 2
    /\ mac_ts_[MacLower][1].id[1] = mac_ts_[MacLower][2].id[1]

InFlight == {s \in Slots : pc[s] \in {"scan", "exec"}}

\* C9 as claimed: at most one run of arpscan_and_push is in flight.
C9_AtMostOneInFlight == Cardinality(InFlight) <= 1

\* C9 as amended: a firing is dropped only when it has expired, whatever
\* runs are in flight; a run in flight does not make the worker drop one.
C9_DroppedOnlyWhenExpired ==
    [][dropped' # dropped =>
         /\ queue # <<>>
         /\ dropped' = dropped \cup {Head(queue)}
         /\ now > Head(queue).expires
      ]_vars

\* a firing sent while the prior run was still in flight runs next to it
C9_Witness ==
    /\ InFlight = {1, 2}
    /\ req[1].sent # req[2].sent
    /\ req[1].started < req[2].sent

\* the expiry max(10, P / 4) of the claim, for P = FREQUENCY
ClaimedExpiry(e) ==
    \/ 4 * e = FREQUENCY /\ e >= 10
    \/ e = 10 /\ FREQUENCY <= 40

\* C10: every firing carries the expiry max(10, P / 4); a run begins no
\* later than its firing's expiry; a dropped firing was never begun and
\* a run that has begun goes on to its end.
C10_ExpiryBeforeStart ==
    /\ [](/\ \A i \in DOMAIN queue :
               ClaimedExpiry(queue[i].expires - queue[i].sent)
          /\ \A s \in Slots : req[s] # NoReq =>
               /\ ClaimedExpiry(req[s].expires - req[s].sent)
               /\ req[s].started <= req[s].expires
               /\ \A m \in dropped : m.sent # req[s].sent)
    /\ [][\A s \in Slots :
            pc[s] \in {"scan", "exec"} =>
               /\ pc'[s] \in {"scan", "exec", "done", "failed"}
               /\ req'[s] = req[s]
         ]_vars

\* one firing was begun at its deadline, a later one dropped past its own
C10_Witness ==
    /\ \E s \in Slots : req[s] # NoReq /\ req[s].started = req[s].expires
    /\ \E m \in dropped : now = m.expires + 1

\* C11: gen_dateranges(T, step, count) with step > 0 and count >= 0 yields
\* exactly count pairs; each pair spans exactly step seconds; the first
\* pair ends at T; each later pair ends one second before its predecessor
\* begins, so the windows neither overlap nor touch and come latest first.
C11_WindowsDescend ==
    /\ Len(gen.out) = gen.i
    /\ gen.i <= gen.count
    /\ Len(gen_dateranges(gen.latest, gen.step, gen.count)) = gen.count
    /\ \A k \in DOMAIN gen.out :
         /\ gen.out[k] = gen_dateranges(gen.latest, gen.step, gen.count)[k]
         /\ gen.out[k][1] - gen.out[k][2] = gen.step
         /\ k = 1 => gen.out[k][1] = timestamp(gen.latest)
         /\ k > 1 => /\ gen.out[k - 1][2] - gen.out[k][1] = 1
                     /\ gen.out[k][1] < gen.out[k - 1][2]

C11_Witness ==
    /\ gen.count >= 2
    /\ gen.i = gen.count
    /\ Len(gen.out) = gen.count
    /\ gen.latest.us # 0

\* the class the claim gives to a device count
ClaimedClass(n) ==
    IF n = 0 THEN "grad0"
    ELSE IF n \in 1..5 THEN "grad1"
    ELSE IF n \in 6..7 THEN "grad2"
    ELSE IF n \in 8..11 THEN "grad3"
    ELSE "grad4"

\* C12: with device_count the number of flattened fields divided by two,
\* the class is grad0 for 0, grad1 below 6, grad2 below 8, grad3 below 12
\* and grad4 from 12 on; 0, 5, 6, 7, 8, 11, 12 give grad0, grad1, grad2,
\* grad2, grad3, grad3, grad4.
C12_ClassByDeviceCount ==
    view.out # <<>> =>
       LET device_count == Len(view.cell.fields) \div 2
       IN  /\ view.out[1].class = ClaimedClass(device_count)
           /\ device_count = 0  => view.out[1].class = "grad0"
           /\ device_count = 5  => view.out[1].class = "grad1"
           /\ device_count = 6  => view.out[1].class = "grad2"
           /\ device_count = 7  => view.out[1].class = "grad2"
           /\ device_count = 8  => view.out[1].class = "grad3"
           /\ device_count = 11 => view.out[1].class = "grad3"
           /\ device_count = 12 => view.out[1].class = "grad4"

C12_Witness ==
    /\ view.out # <<>>
    /\ Len(view.cell.fields) = 2 * 12
    /\ view.out[1].class = "grad4"

\* the value an aggregate Event pairs with address a
PairedWith(ev, a) ==
    ev.fields[(CHOOSE i \in DOMAIN ev.fields : i % 2 = 1 /\ ev.fields[i] = a) + 1]

\* C13: a vendor string of at most 15 characters is stored unchanged; a
\* longer one is stored as exactly 15 characters, a prefix of the original
\* followed by "..."; the per-entity Event's hw field and the aggregate
\* Event's pair for that address hold the same value.
C13_VendorBounded ==
    [][\A s \in Slots : Commits(s) =>
         \A a \in AcceptedMacs(scan[s], ignore_macs[s]) :
            LET vendor == scan[s][FirstOccurrence(scan[s], a)].hw
                stored == Last(mac_ts_'[a]).fields[4]
            IN  /\ Last(mac_ts_'[a]).fields[3] = "hw"
                /\ Len(stored) <= 15
                /\ Len(vendor) <= 15 => stored = vendor
                /\ Len(vendor) > 15 =>
                      /\ Len(stored) = 15
                      /\ SubSeq(stored, 1, 12) = SubSeq(vendor, 1, 12)
                      /\ SubSeq(stored, 13, 15) = <<".", ".", ".">>
                /\ a \in EventMacs(Last(mac_ts'))
                /\ PairedWith(Last(mac_ts'), a) = stored]_vars

C13_Witness ==
    \E s \in Slots :
       /\ pc[s] = "done"
       /\ scan[s] = <<RecSixteen, RecFifteen>>
       /\ Last(mac_ts).fields =
             <<MacUpper, SubSeq(Hw16, 1, 12) \o <<".", ".", ".">>,
               MacOther, Hw15>>
       /\ Last(mac_ts_[MacUpper]).fields[4] =
             SubSeq(Hw16, 1, 12) \o <<".", ".", ".">>
       /\ Last(mac_ts_[MacOther]).fields[4] = Hw15

\* C14: a malformed record (one without its hardware address) is dropped
\* and the batch goes on: a run whose batch holds a malformed record next
\* to a record that is well-formed and not ignored does not fail.
C14_MalformedDropped ==
    \A s \in Slots :
       (pc[s] = "failed" /\ ~WellFormed(scan[s]))
       => AcceptedMacs(scan[s], ignore_macs[s]) = {}

\* C15: requesting the page twice with no write to the aggregate log in
\* between gives identical records (device count, class, colour, tooltip
\* text).
C15_RereadIdentical ==
    [][(page # NoPage /\ data = mac_ts) => page'.cells = page.cells]_vars

\* C15 (amended): requesting the page writes nothing; requesting it twice
\* with no write to the aggregate log in between gives the same Events
\* with identical device count, class and colour; the tooltip's age is
\* taken against the clock at the request, so the tooltip text is identical
\* when both requests see the same clock reading.
C15_RereadSameButAge ==
    [][/\ (page' # page \/ data' # data) => store' = store
       /\ (page # NoPage /\ data = mac_ts) =>
             /\ Len(page'.cells) = Len(page.cells)
             /\ \A i \in DOMAIN page.cells :
                   /\ page'.cells[i].id = page.cells[i].id
                   /\ page'.cells[i].class = page.cells[i].class
                   /\ page'.cells[i].colour = page.cells[i].colour
                   /\ page'.cells[i].tooltip.devices =
                         page.cells[i].tooltip.devices
             /\ page'.window = page.window => page'.cells = page.cells]_vars

C15_Witness ==
    /\ now = FREQUENCY
    /\ data = mac_ts
    /\ page.window = <<FREQUENCY, FREQUENCY - 60 * 60 * 24>>
    /\ Len(page.cells) = 2
    /\ page.cells[1].tooltip.devices = 1
    /\ page.cells[1].tooltip.age.unit = "minutes"
    /\ page.cells[1].class = "grad1"

\* C16: a batch that is empty, or whose every record is ignored, still
\* completes: p.execute() succeeds and appends exactly one Event with no
\* fields to the aggregate log, with no per-entity Event and no member
\* added to 'mac_addrs'.
C16_EmptyBatchCommits ==
    [][\A s \in Slots :
         (/\ pc[s] = "exec"
          /\ pc'[s] # "exec"
          /\ AcceptedMacs(scan[s], ignore_macs[s]) = {})
         => /\ pc'[s] = "done"
            /\ Len(mac_ts') = Len(mac_ts) + 1
            /\ Last(mac_ts').fields = <<>>
            /\ mac_ts_' = mac_ts_
            /\ mac_addrs' = mac_addrs]_vars

\* positions of the first occurrences of the accepted addresses, ascending
AcceptedPositions(B, snapshot) ==
    LET P == {FirstOccurrence(B, a) : a \in AcceptedMacs(B, snapshot)}
    IN  CHOOSE q \in [1..Cardinality(P) -> P] :
           \A i, j \in 1..Cardinality(P) : i < j => q[i] < q[j]

\* C17: the aggregate Event's fields are the (address, truncated vendor)
\* pairs of the accepted records in the order of their first occurrence in
\* the scan; the per-address appends are queued in that order, before the
\* aggregate append, which comes before the update of 'mac_addrs'; each
\* batch's aggregate Event is appended after, and with a greater id than,
\* those of the batches committed before it.
C17_FirstOccurrenceOrder ==
    [][\A s \in Slots : Commits(s) =>
         LET B    == scan[s]
             pos  == AcceptedPositions(B, ignore_macs[s])
             n    == Len(pos)
             cmds == Pipeline(B, ignore_macs[s])
             ev   == Last(mac_ts')
         IN  /\ Len(ev.fields) = 2 * n
             /\ \A k \in 1..n :
                   /\ ev.fields[2 * k - 1] = B[pos[k]].mac
                   /\ ev.fields[2 * k] = Last(mac_ts_'[B[pos[k]].mac]).fields[4]
                   /\ cmds[k].cmd = "XADD"
                   /\ cmds[k].key = <<"mac_ts_", B[pos[k]].mac>>
             /\ Len(cmds) = n + 2
             /\ cmds[n + 1].cmd = "XADD" /\ cmds[n + 1].key = <<"mac_ts">>
             /\ cmds[n + 2].cmd = "SADD"
             /\ mac_ts' = Append(mac_ts, ev)
             /\ \A i \in DOMAIN mac_ts : IdLess(mac_ts[i].id, ev.id)]_vars

C17_Witness ==
    \E s \in Slots :
       /\ pc[s] = "done"
       /\ scan[s] = <<RecUpper, RecFirst>>
       /\ Len(mac_ts) = 2
       /\ IdLess(mac_ts[1].id, mac_ts[2].id)
       /\ mac_ts[2].fields =
             <<MacUpper, HwShort, MacLower, truncate(HwLong, VendorMax)>>

\* C18: the ignore set is read once, before the first record: the batch's
\* local copy is the set as it stands when the batch begins, it is kept to
\* the end of the batch, and it alone decides which records are written,
\* whatever is added to or removed from the ignore set meanwhile.
C18_SnapshotDecides ==
    [][\A s \in Slots :
         /\ (pc[s] = "scan" /\ pc'[s] = "exec")
               => ignore_macs'[s] = mac_addrs_ignore
         /\ (pc[s] = "exec" /\ pc'[s] \in {"exec", "done"})
               => ignore_macs'[s] = ignore_macs[s]
         /\ Commits(s) =>
               /\ EventMacs(Last(mac_ts')) =
                     AcceptedMacs(scan[s], ignore_macs[s])
               /\ \A a \in Macs :
                     Len(mac_ts_'[a]) = Len(mac_ts_[a]) +
                        (IF a \in AcceptedMacs(scan[s], ignore_macs[s])
                         THEN 1 ELSE 0)]_vars

\* two batches committed under their own copies: one wrote an address the
\* other left out, and the ignore set as it stands now differs from a copy
C18_Witness ==
    \E s, t \in Slots :
       /\ pc[s] = "done" /\ pc[t] = "done"
       /\ scan[s] = <<RecFirst>> /\ scan[t] = <<RecFirst, RecUpper>>
       /\ ignore_macs[s] = {} /\ ignore_macs[t] = {MacLower}
       /\ mac_addrs_ignore = {}
       /\ Len(mac_ts) = 2
       /\ Len(mac_ts_[MacLower]) = 1
       /\ Len(mac_ts_[MacUpper]) = 1

\* no two members of S differ only in case
NoCaseVariants(S) == \A x, y \in S : Lower(x) = Lower(y) => x = y

\* C19: the registry is case-insensitive: an alias set under one spelling
\* of an address is the alias looked up, overwritten and removed under any
\* other spelling, and neither the ignore set nor 'mac_addrs' ever holds
\* two members that differ only in case.
C19_CaseInsensitive ==
    /\ \A a, b \in RegistryInputs :
          Lower(a) = Lower(b) => get_mac_aliases(<<a>>) = get_mac_aliases(<<b>>)
    /\ NoCaseVariants(DOMAIN mac_addr_aliases)
    /\ NoCaseVariants(mac_addrs_ignore)
    /\ NoCaseVariants(mac_addrs)

\* per-address logs that grow in this step
Grown == {a \in Macs : Len(mac_ts_'[a]) > Len(mac_ts_[a])}

\* C20: a committed batch's aggregate Event holds exactly one pair for each
\* per-address Event the batch appended: it has twice as many fields as
\* there are logs that grew, the device count the view derives from it is
\* the number of those logs, and its addresses are the members the batch
\* adds to 'mac_addrs'.
C20_AggregateAgrees ==
    [][\A s \in Slots : Commits(s) =>
         LET ev == Last(mac_ts')
         IN  /\ Len(ev.fields) = 2 * Cardinality(Grown)
             /\ \A a \in Grown :
                   /\ Len(mac_ts_'[a]) = Len(mac_ts_[a]) + 1
                   /\ Cardinality({i \in DOMAIN ev.fields :
                                     i % 2 = 1 /\ ev.fields[i] = a}) = 1
             /\ EventMacs(ev) = Grown
             /\ tooltip_text(ev, now).devices = Cardinality(Grown)
             /\ Last(Pipeline(scan[s], ignore_macs[s])).args = EventMacs(ev)
             /\ mac_addrs' = mac_addrs \cup EventMacs(ev)]_vars

C20_Witness ==
    \E s \in Slots :
       /\ pc[s] = "done"
       /\ scan[s] = <<RecFirst, RecUpper>>
       /\ ignore_macs[s] = {}
       /\ Len(mac_ts) = 1
       /\ Len(mac_ts[1].fields) = 4
       /\ tooltip_text(mac_ts[1], now).devices = 2
       /\ Len(mac_ts_[MacLower]) = 1
       /\ Len(mac_ts_[MacUpper]) = 1
       /\ mac_addrs = {MacLower, MacUpper}

====
